---- MODULE Spec2Model ----
(***************************************************************************)
(* Resource planner (src/app.py): the store of resources and tasks, the    *)
(* scheduling/occupancy engine (overlap filter, calendar expander,         *)
(* utilization calculator, display orderer) and the pages that drive it.   *)
(*                                                                         *)
(* Dates are calendar days, written as day ordinals 1..MaxDay.  An         *)
(* optional date (Python None or a Timestamp) is a sequence: << >> is      *)
(* None, <<d>> is the day d.  A DataFrame is the sequence of its rows; a   *)
(* frame built from no rows has no columns.  Strings are compared in       *)
(* SQLite's BINARY collation through Collation.  The label separator of    *)
(* the source is an en dash; it is written " - " here.                     *)
(***************************************************************************)
EXTENDS Integers, Sequences, FiniteSets, TLC

\* ------------------------------------------------------------------ bounds

MaxDay == 3
MaxTasks == 2
MaxRes == 3

Days == 1..MaxDay
OptDays == {<< >>} \cup {<<d>> : d \in Days}

\* ------------------------------------------------------- program constants

STATUS_OPTIONS == <<"Planned", "In Progress", "Done", "On Hold", "Holiday", "Time Off">>

ResourceTypes == <<"Vessel", "Project", "Person">>

\* A type the resource form never offers; the type column is free TEXT.
UnknownType == "Crane"

Names == {"Alpha", "Polaris", "Zed"}

\* Task titles, one per task id (seed_demo_data's first titles).
Titles == <<"Cable lay", "ROV inspection", "Mobilisation", "Execution phase">>

\* Every string a resource row can hold, in byte order (ORDER BY type, name).
Collation ==
    <<"Alpha", "Aurora Explorer", "Crane", "Person", "Polaris", "Project", "Vessel", "Zed">>

\* ----------------------------------------------------------------- helpers

Range(s) == {s[i] : i \in 1..Len(s)}

StrRank(s) == CHOOSE i \in 1..Len(Collation) : Collation[i] = s

Max2(a, b) == IF a >= b THEN a ELSE b

Min2(a, b) == IF a <= b THEN a ELSE b

\* The rows of the set S as a sequence in the order before, a strict total order on S
\* given as its set of pairs.
RECURSIVE SortRows(_, _)
SortRows(S, before) ==
    IF S = {} THEN << >>
    ELSE LET first == CHOOSE r \in S : \A o \in S \ {r} : <<r, o>> \in before
         IN  <<first>> \o SortRows(S \ {first}, before)

\* ------------------------------------------------------------------- state

VARIABLES
    resources,        \* table resources: rows [id, name, type, active]
    tasks,            \* table tasks: rows [id, resource_id, title, start_date, end_date, status]
    pc,               \* the operation that ran last
    res_df,           \* the resource catalog frame the operation used
    tasks_df,         \* the task frame the operation worked on
    selected_types,   \* "Resource types" multiselect
    selected_res,     \* "Resources" multiselect (labels)
    status_filter,    \* "Task status" multiselect
    start_filter,     \* window start, optional
    end_filter,       \* window end, optional
    calendar_df,      \* occupancy records
    util_df,          \* utilization rows
    ordered_labels,   \* the display order
    zoom_choice,      \* "Zoom" radio of the Schedule page
    date_range,       \* the date_input range, <<from, to>>
    kpi,              \* the dashboard's KPI cards
    notice,           \* the st.info / st.warning / st.error the run showed, or "none"
    raised,           \* "none", or the exception the operation raised
    seq,              \* sqlite_sequence: the last AUTOINCREMENT id of each table
    session_state,    \* st.session_state of each operator session
    run,              \* each session's script run in progress: what it loaded
    form_input        \* the title the last press of the task form submitted

vars == <<resources, tasks, pc, res_df, tasks_df, selected_types, selected_res,
          status_filter, start_filter, end_filter, calendar_df, util_df,
          ordered_labels, zoom_choice, date_range, kpi, notice, raised,
          seq, session_state, run, form_input>>

\* What the engine's functions leave alone: the page inputs and messages.
page_vars == <<zoom_choice, date_range, kpi, notice>>

\* What the engine's functions and the read-only page runs leave alone: the
\* AUTOINCREMENT counters, the sessions and their forms.
app_vars == <<seq, session_state, run, form_input>>

\* ------------------------------------------------------------------- store

\* ORDER BY type, name; rows equal in both come in rowid order.
ResourceBefore(a, b) ==
    \/ StrRank(a.type) < StrRank(b.type)
    \/ a.type = b.type /\ StrRank(a.name) < StrRank(b.name)
    \/ a.type = b.type /\ a.name = b.name /\ a.id < b.id

fetch_resources(table, active_only) ==
    LET rows == IF active_only THEN {r \in table : r.active = 1} ELSE table
    IN  SortRows(rows, {p \in rows \X rows : ResourceBefore(p[1], p[2])})

\* res_df = pd.DataFrame(resources); res_df["label"] = type + " - " + name
ResourceFrame(rows) ==
    [i \in 1..Len(rows) |->
        [id |-> rows[i].id, name |-> rows[i].name, type |-> rows[i].type,
         active |-> rows[i].active, label |-> rows[i].type \o " - " \o rows[i].name]]


\* fetch_tasks(): tasks JOIN resources ON resource_id = id, ORDER BY start_date (dates
\* are ISO text, whose byte order is the calendar order); equal dates in rowid order.
TaskBefore(a, b) ==
    \/ a.start_date < b.start_date
    \/ a.start_date = b.start_date /\ a.id < b.id

JoinedRow(t, r) ==
    [id |-> t.id, resource_id |-> t.resource_id, title |-> t.title,
     start_date |-> t.start_date, end_date |-> t.end_date, status |-> t.status,
     resource_name |-> r.name, resource_type |-> r.type]

LeftJoinFetchTasks(res_table, task_table) ==
    LET rows == {JoinedRow(t, r) : <<t, r>> \in
                    {p \in task_table \X res_table : p[1].resource_id = p[2].id}}
                \cup {JoinedRow(t, [name |-> "NaN", type |-> "NaN"]) :
                         t \in {u \in task_table :
                                   \A r \in res_table : r.id # u.resource_id}}
    IN  SortRows(rows, {p \in rows \X rows : TaskBefore(p[1], p[2])})

fetch_tasks(res_table, task_table) ==
    LET rows == {JoinedRow(t, r) : <<t, r>> \in
                    {p \in task_table \X res_table : p[1].resource_id = p[2].id}}
    IN  SortRows(rows, {p \in rows \X rows : TaskBefore(p[1], p[2])})

\* Start/Finish = pd.to_datetime(start_date/end_date): midnight of the same day.
WithStartFinish(row, extra) ==
    [id |-> row.id, resource_id |-> row.resource_id, title |-> row.title,
     start_date |-> row.start_date, end_date |-> row.end_date, status |-> row.status,
     resource_name |-> row.resource_name, resource_type |-> row.resource_type,
     Start |-> row.start_date, Finish |-> row.end_date,
     ResourceLabel |-> extra.label, ResourceType |-> extra.type]

NaN == "NaN"

\* The dashboard's frame has no ResourceLabel/ResourceType columns; they read NaN here.
load_tasks_with_resources(res_table, task_table) ==
    LET rows == fetch_tasks(res_table, task_table)
    IN  [i \in 1..Len(rows) |-> WithStartFinish(rows[i], [label |-> NaN, type |-> NaN])]

\* ------------------------------------------------------- calendar expander

\* pd.date_range(start, end, freq="D"): every day from start to end, both included.
RECURSIVE pd_date_range(_, _)
pd_date_range(start, end) ==
    IF start > end THEN << >> ELSE <<start>> \o pd_date_range(start + 1, end)

OccupancyRecord(row, dt) ==
    [date |-> dt, resource_id |-> row.resource_id, resource_name |-> row.resource_name,
     resource_type |-> row.resource_type, status |-> row.status, title |-> row.title]

ClampedStart(row, sf) == IF sf # << >> THEN Max2(row.Start, sf[1]) ELSE row.Start

ClampedEnd(row, ef) == IF ef # << >> THEN Min2(row.Finish, ef[1]) ELSE row.Finish

\* One pass of the loop body of expand_tasks_to_calendar: the records the row appends.
UnclampedStartRecords(row, sf, ef) ==
    LET days == pd_date_range(row.Start, ClampedEnd(row, ef))
    IN  [i \in 1..Len(days) |-> OccupancyRecord(row, days[i])]

ExclusiveEndRecords(row, sf, ef) ==
    LET days == pd_date_range(ClampedStart(row, sf), ClampedEnd(row, ef) - 1)
    IN  [i \in 1..Len(days) |-> OccupancyRecord(row, days[i])]

RowRecords(row, sf, ef) ==
    LET start == ClampedStart(row, sf)
        end   == ClampedEnd(row, ef)
        days  == IF start > end THEN << >> ELSE pd_date_range(start, end)
    IN  [i \in 1..Len(days) |-> OccupancyRecord(row, days[i])]

RECURSIVE ExpandFrom(_, _, _, _)
ExpandFrom(frame, i, sf, ef) ==
    IF i > Len(frame) THEN << >>
    ELSE RowRecords(frame[i], sf, ef) \o ExpandFrom(frame, i + 1, sf, ef)

expand_tasks_to_calendar(frame, sf, ef) ==
    IF frame = << >> THEN << >> ELSE ExpandFrom(frame, 1, sf, ef)

\* --------------------------------------------------- utilization calculator

\* round(x, 1) of x = 100 * busy / total, in tenths of a percent, ties to even.
RoundedTenths(busy, total) ==
    LET n == busy * 1000
        q == n \div total
        r == n % total
    IN  IF 2 * r < total THEN q
        ELSE IF 2 * r > total THEN q + 1
        ELSE IF q % 2 = 0 THEN q ELSE q + 1

GroupKey(rec) == <<rec.resource_id, rec.resource_name, rec.resource_type>>

RecordCountBusyDays(cal, key) == Cardinality({j \in 1..Len(cal) : GroupKey(cal[j]) = key})

\* groupby(...)["date"].nunique(): the number of distinct dates of the group.
BusyDays(cal, key) == Cardinality({cal[i].date : i \in {j \in 1..Len(cal) : GroupKey(cal[j]) = key}})

UtilizationRow(cal, key, total_days) ==
    [resource_id |-> key[1], resource_name |-> key[2], resource_type |-> key[3],
     busy_days |-> BusyDays(cal, key), available_days |-> total_days,
     utilization |-> RoundedTenths(BusyDays(cal, key), total_days)]

\* sort_values("utilization", ascending=False) over the groups in key order.
UtilizationBefore(a, b) ==
    \/ a.utilization > b.utilization
    \/ a.utilization = b.utilization /\ a.resource_id < b.resource_id

ClampedWindowUtilization(cal, sf, ef) ==
    IF cal = << >> THEN << >>
    ELSE LET total_days == Max2(1, (ef - sf) + 1)
             rows == {UtilizationRow(cal, GroupKey(cal[i]), total_days) : i \in 1..Len(cal)}
         IN  SortRows(rows, {p \in rows \X rows : UtilizationBefore(p[1], p[2])})

compute_utilization(cal, sf, ef) ==
    IF cal = << >> THEN << >>
    ELSE LET total_days == (ef - sf) + 1
         IN  IF total_days <= 0 THEN << >>
             ELSE LET rows == {UtilizationRow(cal, GroupKey(cal[i]), total_days)
                                  : i \in 1..Len(cal)}
                  IN  SortRows(rows, {p \in rows \X rows : UtilizationBefore(p[1], p[2])})

\* ----------------------------------------------------------- display order

LabelsOfType(frame, type) ==
    LET sel == SelectSeq(frame, LAMBDA r : r.type = type)
    IN  [i \in 1..Len(sel) |-> sel[i].label]

PeopleFirstLabels(frame) ==
    LabelsOfType(frame, "Person") \o LabelsOfType(frame, "Project") \o LabelsOfType(frame, "Vessel")

ordered_resource_labels(frame) ==
    LabelsOfType(frame, "Vessel") \o LabelsOfType(frame, "Project") \o LabelsOfType(frame, "Person")

\* ------------------------------------------------------------------- pages

MinOf(S) == CHOOSE x \in S : \A y \in S : x <= y

MaxOf(S) == CHOOSE x \in S : \A y \in S : x >= y

\* safe_unique(df, column): the distinct non-null values of the column.
safe_unique(frame, column) == {frame[i][column] : i \in 1..Len(frame)} \ {NaN}

\* tasks_df.merge(res_df[["id", "label", "type"]], left_on="resource_id", right_on="id",
\* how="left"): resource ids are a primary key, so a task matches at most one row.
MergedRow(row, catalog) ==
    LET m == {k \in 1..Len(catalog) : catalog[k].id = row.resource_id}
    IN  IF m = {} THEN WithStartFinish(row, [label |-> NaN, type |-> NaN])
        ELSE WithStartFinish(row, catalog[MinOf(m)])

\* The Schedule page's mask (lines 659-665).
StrictOverlapMask(row, types, labels, statuses, sf, ef) ==
    /\ row.ResourceType \in types
    /\ row.ResourceLabel \in labels
    /\ row.status \in statuses
    /\ row.Start < ef
    /\ row.Finish > sf

ScheduleMask(row, types, labels, statuses, sf, ef) ==
    /\ row.ResourceType \in types
    /\ row.ResourceLabel \in labels
    /\ row.status \in statuses
    /\ row.Start <= ef
    /\ row.Finish >= sf

\* The Dashboard page's two masks (lines 831-838).
DashboardMask(row, types, statuses, sf, ef) ==
    /\ row.resource_type \in types
    /\ row.status \in statuses
    /\ row.Start <= ef
    /\ row.Finish >= sf

\* The window the zoom radio asks for, before it is cut to [min_date, max_date].
ZoomWindow(zoom, range, min_date, max_date) ==
    CASE zoom = "Full year" -> <<min_date, max_date>>
      [] zoom = "90 days"   -> <<max_date - 89, max_date>>
      [] zoom = "6 months"  -> <<max_date - 182, max_date>>
      [] zoom = "Custom"    -> range

\* min_date and max_date of the Schedule page (lines 466-471).
ScheduleDateBounds(tasks_all, today) ==
    IF tasks_all # << >>
    THEN <<MinOf({tasks_all[i].start_date : i \in 1..Len(tasks_all)}),
           MaxOf({tasks_all[i].end_date : i \in 1..Len(tasks_all)})>>
    ELSE <<today, today>>

\* min_date and max_date of the Dashboard page (lines 798-799).
DashboardDateBounds(td) ==
    <<MinOf({td[i].Start : i \in 1..Len(td)}), MaxOf({td[i].Finish : i \in 1..Len(td)})>>

View(rd, td, sf, ef, cal, util, ord, k, n, r) ==
    [res_df |-> rd, tasks_df |-> td, start_filter |-> sf, end_filter |-> ef,
     calendar_df |-> cal, util_df |-> util, ordered_labels |-> ord, kpi |-> k,
     notice |-> n, raised |-> r]

\* page_schedule, run with the task form in create mode and no button pressed.
page_schedule(res_table, task_table, types, labels, statuses, zoom, range, today) ==
    LET rows == fetch_resources(res_table, TRUE)
    IN  IF rows = << >>
        THEN View(<< >>, << >>, << >>, << >>, << >>, << >>, << >>, << >>, "no_resources", "none")
        ELSE
        LET rd        == ResourceFrame(rows)
            tasks_all == fetch_tasks(res_table, task_table)
            min_date  == ScheduleDateBounds(tasks_all, today)[1]
            max_date  == ScheduleDateBounds(tasks_all, today)[2]
            w         == ZoomWindow(zoom, range, min_date, max_date)
            sf        == Max2(w[1], min_date)
            ef        == Min2(w[2], max_date)
            resources_filtered ==
                SelectSeq(rd, LAMBDA r : r.type \in types /\ r.label \in labels)
        IN  IF resources_filtered = << >>
            THEN View(rd, << >>, <<sf>>, <<ef>>, << >>, << >>, << >>, << >>,
                      "no_resource_match", "none")
            ELSE IF tasks_all = << >>
            THEN View(rd, << >>, <<sf>>, <<ef>>, << >>, << >>, << >>, << >>,
                      "no_tasks", "none")
            ELSE
            LET merged   == [i \in 1..Len(tasks_all) |-> MergedRow(tasks_all[i], rd)]
                filtered == SelectSeq(merged,
                               LAMBDA r : ScheduleMask(r, types, labels, statuses, sf, ef))
            IN  IF filtered = << >>
                THEN View(rd, << >>, <<sf>>, <<ef>>, << >>, << >>, << >>, << >>,
                          "no_task_match", "none")
                ELSE
                LET shown == {filtered[i].ResourceLabel : i \in 1..Len(filtered)}
                    ord   == SelectSeq(ordered_resource_labels(rd), LAMBDA l : l \in shown)
                    cal   == expand_tasks_to_calendar(filtered, <<sf>>, <<ef>>)
                    util  == compute_utilization(cal, sf, ef)
                IN  View(rd, filtered, <<sf>>, <<ef>>, cal, util, ord, << >>, "none", "none")

\* round(util_df["utilization"].mean(), 1), in tenths of a percent.
RECURSIVE SumUtilization(_, _)
SumUtilization(util, i) ==
    IF i > Len(util) THEN 0 ELSE util[i].utilization + SumUtilization(util, i + 1)

AverageUtilisation(util) ==
    IF util = << >> THEN 0
    ELSE LET n == SumUtilization(util, 1)
             q == n \div Len(util)
             r == n % Len(util)
         IN  IF 2 * r < Len(util) THEN q
             ELSE IF 2 * r > Len(util) THEN q + 1
             ELSE IF q % 2 = 0 THEN q ELSE q + 1

\* calendar_df.groupby("resource_name")["date"].nunique()
BusyDaysByName(cal, name) ==
    Cardinality({cal[i].date : i \in {j \in 1..Len(cal) : cal[j].resource_name = name}})

\* busiest.iloc[0]: the most busy days; among equals the first name of the grouping.
MostBusy(cal) ==
    LET names == {cal[i].resource_name : i \in 1..Len(cal)}
        top   == CHOOSE a \in names : \A b \in names \ {a} :
                     \/ BusyDaysByName(cal, a) > BusyDaysByName(cal, b)
                     \/ /\ BusyDaysByName(cal, a) = BusyDaysByName(cal, b)
                        /\ StrRank(a) < StrRank(b)
    IN  [resource_name |-> top, busy_days |-> BusyDaysByName(cal, top)]

\* The KPI cards (lines 846-858).  A frame built from no rows has no columns, so
\* calendar_df["resource_name"] raises KeyError when no record was produced.
KpiCards(filtered, cal, util) ==
    IF cal = << >>
    THEN [kpi |-> << >>, raised |-> "KeyError"]
    ELSE [kpi |-> [total_tasks |-> Len(filtered),
                   active_resources |-> Cardinality({cal[i].resource_name : i \in 1..Len(cal)}),
                   most_busy_label |-> MostBusy(cal),
                   avg_utilisation |-> AverageUtilisation(util)],
          raised |-> "none"]

page_dashboard(res_table, task_table, range, types, statuses) ==
    LET td == load_tasks_with_resources(res_table, task_table)
    IN  IF td = << >>
        THEN View(<< >>, << >>, << >>, << >>, << >>, << >>, << >>, << >>, "no_tasks", "none")
        ELSE
        LET sf       == range[1]
            ef       == range[2]
            filtered == SelectSeq(td, LAMBDA r : DashboardMask(r, types, statuses, sf, ef))
        IN  IF filtered = << >>
            THEN View(<< >>, << >>, <<sf>>, <<ef>>, << >>, << >>, << >>, << >>,
                      "no_task_match", "none")
            ELSE
            LET cal   == expand_tasks_to_calendar(filtered, <<sf>>, <<ef>>)
                util  == compute_utilization(cal, sf, ef)
                cards == KpiCards(filtered, cal, util)
            IN  View(<< >>, filtered, <<sf>>, <<ef>>, cal, util, << >>, cards.kpi,
                     "none", cards.raised)

\* ------------------------------------------------------------ store writes

\* The store as the statements see it.  A resource row is [id, name, type, color,
\* active]; a task row is [id, resource_id, title, start_date, end_date, status]
\* (description and the two timestamps are not read by anything modelled here).  A task
\* title is the sequence of its chunks, " " being a run of whitespace.
Store(r, t, q) == [resources |-> r, tasks |-> t, seq |-> q]

\* Python's None, as a color and as an edit id (row ids start at 1).
NoColor == "None"

None == 0

\* AUTOINCREMENT: the new id is one more than the largest id the table ever held.
insert_resource(st, name, rtype, color) ==
    LET new_id == st.seq.resources + 1
    IN  [st EXCEPT !.resources = @ \cup {[id |-> new_id, name |-> name, type |-> rtype,
                                            color |-> color, active |-> 1]},
                   !.seq.resources = new_id]

update_resource(st, res_id, name, rtype, color, active) ==
    [st EXCEPT !.resources =
        {IF r.id = res_id
         THEN [id |-> r.id, name |-> name, type |-> rtype, color |-> color,
               active |-> IF active THEN 1 ELSE 0]
         ELSE r : r \in @}]

TaskOrphaningDelete(st, res_id) ==
    [st EXCEPT !.resources = {r \in @ : r.id # res_id}]

\* Both DELETE statements are committed together.
delete_resource(st, res_id) ==
    [st EXCEPT !.tasks = {t \in @ : t.resource_id # res_id},
               !.resources = {r \in @ : r.id # res_id}]

insert_task(st, resource_id, title, start_date, end_date, status) ==
    LET new_id == st.seq.tasks + 1
    IN  [st EXCEPT !.tasks = @ \cup {[id |-> new_id, resource_id |-> resource_id,
                                      title |-> title, start_date |-> start_date,
                                      end_date |-> end_date, status |-> status]},
                   !.seq.tasks = new_id]

\* WHERE id = ? with task_id None matches no row.
update_task(st, task_id, resource_id, title, start_date, end_date, status) ==
    [st EXCEPT !.tasks =
        {IF t.id = task_id
         THEN [id |-> t.id, resource_id |-> resource_id, title |-> title,
               start_date |-> start_date, end_date |-> end_date, status |-> status]
         ELSE t : t \in @}]

delete_task(st, task_id) == [st EXCEPT !.tasks = {t \in @ : t.id # task_id}]

\* ---------------------------------------------------------------- seeding

\* demo_resources and demo_tasks, cut to the first resource and its task; dates are day
\* numbers counted from 2025-01-01 = 1.
demo_resources ==
    <<[name |-> "Aurora Explorer", type |-> "Vessel", color |-> "#0B1E41"]>>

demo_tasks ==
    <<[res_name |-> "Aurora Explorer", title |-> <<"Cable lay - North Sea">>,
       start |-> 4, end |-> 15, status |-> "In Progress"]>>

\* The first loop of seed_demo_data (lines 188-207), from demo resource i on.  fetchone()
\* on a scan of the table returns the matching row of least rowid.
RECURSIVE SeedResources(_, _, _)
SeedResources(st, i, name_to_id) ==
    IF i > Len(demo_resources) THEN [store |-> st, name_to_id |-> name_to_id]
    ELSE LET res == demo_resources[i]
             row == {r \in st.resources : r.name = res.name /\ r.type = res.type}
         IN  IF row # {}
             THEN LET res_id == MinOf({r.id : r \in row})
                  IN  SeedResources(
                          [st EXCEPT !.resources =
                              {IF r.id = res_id
                               THEN [r EXCEPT !.active = 1, !.color = res.color]
                               ELSE r : r \in @}],
                          i + 1, (res.name :> res_id) @@ name_to_id)
             ELSE LET inserted == insert_resource(st, res.name, res.type, res.color)
                  IN  SeedResources(inserted, i + 1,
                                    (res.name :> inserted.seq.resources) @@ name_to_id)

AlwaysInsertTask(st, task, res_id) ==
    insert_task(st, res_id, task.title, task.start, task.end, task.status)

\* One pass of the second loop (lines 210-230), with res_id found in name_to_id.
SeedTask(st, task, res_id) ==
    LET exists == {t \in st.tasks : /\ t.resource_id = res_id
                                    /\ t.title = task.title
                                    /\ t.start_date = task.start
                                    /\ t.end_date = task.end}
    IN  IF exists # {} THEN st
        ELSE insert_task(st, res_id, task.title, task.start, task.end, task.status)

RECURSIVE SeedTasks(_, _, _)
SeedTasks(st, i, name_to_id) ==
    IF i > Len(demo_tasks) THEN st
    ELSE IF demo_tasks[i].res_name \notin DOMAIN name_to_id
         THEN SeedTasks(st, i + 1, name_to_id)
         ELSE SeedTasks(SeedTask(st, demo_tasks[i], name_to_id[demo_tasks[i].res_name]),
                        i + 1, name_to_id)

seed_demo_data(st) ==
    LET seeded == SeedResources(st, 1, [n \in {} |-> 0])
    IN  SeedTasks(seeded.store, 1, seeded.name_to_id)

\* ---------------------------------------------------------------- sessions

\* Two operators, each with a browser session of its own: op1 keeps the Schedule page
\* open and op2 the Resources page.  page_schedule alone touches the task form's two
\* session keys and page_resources alone the resource form's, so one operator moving
\* between the two pages behaves as the pair does.
Sessions == {"op1", "op2"}

Desk == [op1 |-> "Schedule", op2 |-> "Resources"]

\* The largest row id a table hands out in a run of the model.
MaxId == 2

\* The longest title typed into the task form, in chunks.
MaxTitle == 2

TitleChunks == {" ", "Survey"}

\* What is typed into the task form's title: blank, whitespace, or the one word with
\* whitespace around it.
TitleInputs ==
    {t \in UNION {[1..n -> TitleChunks] : n \in 0..MaxTitle} :
        Cardinality({i \in DOMAIN t : t[i] # " "}) <= 1}

\* str.strip(): leading and trailing whitespace removed.
RECURSIVE lstrip(_)
lstrip(t) == IF t # << >> /\ Head(t) = " " THEN lstrip(Tail(t)) ELSE t

RECURSIVE rstrip(_)
rstrip(t) == IF t # << >> /\ t[Len(t)] = " " THEN rstrip(SubSeq(t, 1, Len(t) - 1)) ELSE t

strip(t) == rstrip(lstrip(t))

\* What is typed into the resource form's Name, and str.strip() of it.
NameInputs == {"", "  ", "Aurora Explorer", " Aurora Explorer "}

strip_name(n) ==
    CASE n = "  " -> ""
      [] n = " Aurora Explorer " -> "Aurora Explorer"
      [] OTHER -> n

\* What is typed into the resource form's Color; color.strip() or None.
ColorInputs == {"", "blue"}

color_or_none(c) == IF c = "" THEN NoColor ELSE c

\* date.today(), as a day number.
Today == 20

\* st.session_state before the session's first run: none of the four keys is set.
Missing == "missing"

MissingId == -1

NewSession ==
    [task_form_mode |-> Missing, edit_task_id |-> MissingId,
     res_form_mode |-> Missing, edit_res_id |-> MissingId]

ensure_session_state(ss) ==
    [task_form_mode |-> IF ss.task_form_mode = Missing THEN "create" ELSE ss.task_form_mode,
     edit_task_id   |-> IF ss.edit_task_id = MissingId THEN None ELSE ss.edit_task_id,
     res_form_mode  |-> IF ss.res_form_mode = Missing THEN "create" ELSE ss.res_form_mode,
     edit_res_id    |-> IF ss.edit_res_id = MissingId THEN None ELSE ss.edit_res_id]

\* A reset that clears the mode and leaves the edited id behind.
ModeOnlyTaskReset(ss) == [ss EXCEPT !.task_form_mode = "create"]

reset_task_form(ss) == [ss EXCEPT !.task_form_mode = "create", !.edit_task_id = None]

reset_resource_form(ss) == [ss EXCEPT !.res_form_mode = "create", !.edit_res_id = None]

\* A script run as far as the buttons see it: the page, the form's local mode, the
\* resource options of the task form (label and id; empty when no form was drawn), the
\* ids offered by the page's "select to edit" box, and the exception that ended the run.
\* edit_row holds the row the edit form took its defaults from, if it found one.
Run(page, mode, res_options, listing, edit_row, exc) ==
    [page |-> page, mode |-> mode, res_options |-> res_options, listing |-> listing,
     edit_row |-> edit_row, raised |-> exc]

NoRun == Run("none", "create", {}, {}, {}, "none")

\* form_input when the last step was not a press of the task form: nothing typed.
NoInput == << >>

AppIdle ==
    /\ seq = [resources |-> 0, tasks |-> 0]
    /\ session_state = [s \in Sessions |-> NewSession]
    /\ run = [s \in Sessions |-> NoRun]
    /\ form_input = NoInput

\* ------------------------------------------------------- display order runs

ResourceRows(n) ==
    [1..n -> [name : Names, type : Range(ResourceTypes) \cup {UnknownType}, active : {0, 1}]]

\* The table whose row i (id i) holds f[i].
ResourceTable(f) ==
    {[id |-> i, name |-> f[i].name, type |-> f[i].type, active |-> f[i].active]
        : i \in DOMAIN f}

Idle ==
    /\ pc = "init"
    /\ res_df = << >>
    /\ tasks_df = << >>
    /\ selected_types = {}
    /\ selected_res = {}
    /\ status_filter = {}
    /\ start_filter = << >>
    /\ end_filter = << >>
    /\ calendar_df = << >>
    /\ util_df = << >>
    /\ ordered_labels = << >>
    /\ zoom_choice = "6 months"
    /\ date_range = << >>
    /\ kpi = << >>
    /\ notice = "none"
    /\ raised = "none"
    /\ AppIdle

InitOrder ==
    /\ \E n \in 0..MaxRes : \E f \in ResourceRows(n) : resources = ResourceTable(f)
    /\ tasks = {}
    /\ Idle

\* res_df["type"] (line 323) on the catalog frame: pd.DataFrame([]) has no columns, so
\* the lookup raises KeyError on a catalog of no rows.
TypeColumnLookup(frame) == IF frame = << >> THEN "KeyError" ELSE "none"

\* page_schedule's catalog and its display order (lines 456-462, 674).
CallOrderedLabels ==
    /\ pc = "init"
    /\ pc' = "ordered_resource_labels"
    /\ res_df' = ResourceFrame(fetch_resources(resources, TRUE))
    /\ ordered_labels' = ordered_resource_labels(res_df')
    /\ raised' = TypeColumnLookup(res_df')
    /\ UNCHANGED <<resources, tasks, tasks_df, selected_types, selected_res, status_filter,
                   start_filter, end_filter, calendar_df, util_df, page_vars, app_vars>>

NextOrder == CallOrderedLabels

SpecOrder == InitOrder /\ [][NextOrder]_vars


\* ------------------------------------------------------------- engine runs

\* Two active resources; the engine runs vary the tasks.
DemoCatalog ==
    {[id |-> 1, name |-> "Alpha", type |-> "Vessel", active |-> 1],
     [id |-> 2, name |-> "Zed", type |-> "Person", active |-> 1]}

\* The table whose row i (id i) holds f[i], titled Titles[i].
TaskTable(f) ==
    {[id |-> i, resource_id |-> f[i].resource_id, title |-> Titles[i],
      start_date |-> f[i].start_date, end_date |-> f[i].end_date, status |-> f[i].status]
        : i \in DOMAIN f}

EngineTaskRows(n) ==
    [1..n -> [resource_id : {1, 2}, start_date : Days, end_date : Days, status : {"Planned"}]]

\* The inputs of the engine's functions: the joined task frame of a stored task set,
\* and, as occupancy input of compute_utilization, its expansion with no clamp window.
Init ==
    /\ resources = DemoCatalog
    /\ \E n \in 0..MaxTasks : \E f \in EngineTaskRows(n) : tasks = TaskTable(f)
    /\ pc = "init"
    /\ res_df = << >>
    /\ tasks_df = load_tasks_with_resources(resources, tasks)
    /\ selected_types = {}
    /\ selected_res = {}
    /\ status_filter = {}
    /\ start_filter = << >>
    /\ end_filter = << >>
    /\ calendar_df = expand_tasks_to_calendar(tasks_df, << >>, << >>)
    /\ util_df = << >>
    /\ ordered_labels = << >>
    /\ zoom_choice = "6 months"
    /\ date_range = << >>
    /\ kpi = << >>
    /\ notice = "none"
    /\ raised = "none"
    /\ AppIdle

CallExpand(sf, ef) ==
    /\ pc = "init"
    /\ pc' = "expand_tasks_to_calendar"
    /\ start_filter' = sf
    /\ end_filter' = ef
    /\ calendar_df' = expand_tasks_to_calendar(tasks_df, sf, ef)
    /\ UNCHANGED <<resources, tasks, res_df, tasks_df, selected_types, selected_res,
                   status_filter, util_df, ordered_labels, raised, page_vars, app_vars>>

CallUtilization(sf, ef) ==
    /\ pc = "init"
    /\ pc' = "compute_utilization"
    /\ start_filter' = <<sf>>
    /\ end_filter' = <<ef>>
    /\ util_df' = compute_utilization(calendar_df, sf, ef)
    /\ UNCHANGED <<resources, tasks, res_df, tasks_df, selected_types, selected_res,
                   status_filter, calendar_df, ordered_labels, raised, page_vars, app_vars>>

\* "Load snapshot" of the pages (lines 718-719, 844-845): expand, then utilization,
\* both with the same window.
LoadSnapshot(sf, ef) ==
    /\ pc = "init"
    /\ pc' = "load_snapshot"
    /\ start_filter' = <<sf>>
    /\ end_filter' = <<ef>>
    /\ calendar_df' = expand_tasks_to_calendar(tasks_df, <<sf>>, <<ef>>)
    /\ util_df' = compute_utilization(calendar_df', sf, ef)
    /\ UNCHANGED <<resources, tasks, res_df, tasks_df, selected_types, selected_res,
                   status_filter, ordered_labels, raised, page_vars, app_vars>>

\* An occupancy record read as a task of one day: Start = Finish = date.
OneDayRow(rec, i) ==
    [id |-> i, resource_id |-> rec.resource_id, title |-> rec.title,
     start_date |-> rec.date, end_date |-> rec.date, status |-> rec.status,
     resource_name |-> rec.resource_name, resource_type |-> rec.resource_type,
     Start |-> rec.date, Finish |-> rec.date, ResourceLabel |-> NaN, ResourceType |-> NaN]

\* expand_tasks_to_calendar called again on its own output, with the same window.
ReExpand ==
    /\ pc = "expand_tasks_to_calendar"
    /\ pc' = "re_expand"
    /\ tasks_df' = [i \in 1..Len(calendar_df) |-> OneDayRow(calendar_df[i], i)]
    /\ calendar_df' = expand_tasks_to_calendar(tasks_df', start_filter, end_filter)
    /\ UNCHANGED <<resources, tasks, res_df, selected_types, selected_res, status_filter,
                   start_filter, end_filter, util_df, ordered_labels, raised, page_vars,
                   app_vars>>

Next ==
    \/ \E sf \in OptDays, ef \in OptDays : CallExpand(sf, ef)
    \/ ReExpand
    \/ \E sf \in Days, ef \in Days : CallUtilization(sf, ef)
    \/ \E sf \in Days, ef \in Days : LoadSnapshot(sf, ef)

Spec == Init /\ [][Next]_vars

\* --------------------------------------------------------------- page runs

\* The stores of the page runs.  Resource 1 is the Vessel "Alpha" and resource 2 the
\* Person "Zed"; each is missing, inactive or active.  Task 1, when stored, is a
\* Planned task of resource 1 over all days; task 2, when stored, is any task of
\* resource 1 or 2, its start after its end included.
PageNames == <<"Alpha", "Zed">>

PageTypes == <<"Vessel", "Person">>

PageCatalog(c) ==
    {[id |-> i, name |-> PageNames[i], type |-> PageTypes[i],
      active |-> IF c[i] = "active" THEN 1 ELSE 0] : i \in {j \in DOMAIN c : c[j] # "absent"}}

AnchorTask ==
    [id |-> 1, resource_id |-> 1, title |-> Titles[1], start_date |-> MinOf(Days),
     end_date |-> MaxDay, status |-> "Planned"]

GenericTasks ==
    {[id |-> 2, resource_id |-> r, title |-> Titles[2], start_date |-> s, end_date |-> e,
      status |-> st] : r \in DOMAIN PageTypes, s \in Days, e \in Days, st \in {"Planned", "Done"}}

InitPages ==
    /\ \E c \in [DOMAIN PageTypes -> {"absent", "inactive", "active"}] :
          resources = PageCatalog(c)
    /\ \E a \in SUBSET {AnchorTask} :
          \/ tasks = a
          \/ \E g \in GenericTasks : tasks = a \cup {g}
    /\ Idle

\* The values the widgets can return.
StatusSelections == {Range(STATUS_OPTIONS)} \cup SUBSET {"Planned", "Done"}

ZoomOptions == {"90 days", "6 months", "Full year", "Custom"}

\* st.date_input(value=(min_date, max_date), min_value=min_date, max_value=max_date):
\* a range inside the bounds (a single day is from = to), or the default value.
RangeOptions(bounds) ==
    {<<bounds[1], bounds[2]>>} \cup
    {r \in (bounds[1]..bounds[2]) \X (bounds[1]..bounds[2]) : r[1] <= r[2]}

PageSchedule ==
    /\ pc = "init"
    /\ LET rd        == ResourceFrame(fetch_resources(resources, TRUE))
           tasks_all == fetch_tasks(resources, tasks)
       IN  \E types \in SUBSET safe_unique(rd, "type"),
              labels \in SUBSET safe_unique(rd, "label"),
              statuses \in IF rd = << >> THEN {Range(STATUS_OPTIONS)} ELSE StatusSelections,
              zoom \in IF rd = << >> THEN {"6 months"} ELSE ZoomOptions,
              today \in IF tasks_all = << >> /\ rd # << >> THEN Days ELSE {MinOf(Days)} :
              \E range \in IF zoom = "Custom"
                           THEN RangeOptions(ScheduleDateBounds(tasks_all, today))
                           ELSE {<< >>} :
                 LET v == page_schedule(resources, tasks, types, labels, statuses,
                                        zoom, range, today)
                 IN  /\ pc' = "page_schedule"
                     /\ selected_types' = types
                     /\ selected_res' = labels
                     /\ status_filter' = statuses
                     /\ zoom_choice' = zoom
                     /\ date_range' = range
                     /\ res_df' = v.res_df
                     /\ tasks_df' = v.tasks_df
                     /\ start_filter' = v.start_filter
                     /\ end_filter' = v.end_filter
                     /\ calendar_df' = v.calendar_df
                     /\ util_df' = v.util_df
                     /\ ordered_labels' = v.ordered_labels
                     /\ kpi' = v.kpi
                     /\ notice' = v.notice
                     /\ raised' = v.raised
    /\ UNCHANGED <<resources, tasks, app_vars>>

PageDashboard ==
    /\ pc = "init"
    /\ LET td == load_tasks_with_resources(resources, tasks)
       IN  \E range \in IF td = << >> THEN {<< >>} ELSE RangeOptions(DashboardDateBounds(td)),
              types \in SUBSET safe_unique(td, "resource_type"),
              statuses \in IF td = << >> THEN {Range(STATUS_OPTIONS)} ELSE StatusSelections :
              LET v == page_dashboard(resources, tasks, range, types, statuses)
              IN  /\ pc' = "page_dashboard"
                  /\ selected_types' = types
                  /\ selected_res' = {}
                  /\ status_filter' = statuses
                  /\ zoom_choice' = zoom_choice
                  /\ date_range' = range
                  /\ res_df' = v.res_df
                  /\ tasks_df' = v.tasks_df
                  /\ start_filter' = v.start_filter
                  /\ end_filter' = v.end_filter
                  /\ calendar_df' = v.calendar_df
                  /\ util_df' = v.util_df
                  /\ ordered_labels' = v.ordered_labels
                  /\ kpi' = v.kpi
                  /\ notice' = v.notice
                  /\ raised' = v.raised
    /\ UNCHANGED <<resources, tasks, app_vars>>

NextPages == PageSchedule \/ PageDashboard

SpecPages == InitPages /\ [][NextPages]_vars

\* --------------------------------------------------------- application runs

CurrentStore == Store(resources, tasks, seq)

\* dict(zip(labels, ids)): a label held by several rows keeps the last row's id.
ResOptions(rf) ==
    {[label |-> rf[i].label, id |-> rf[i].id] :
        i \in {k \in 1..Len(rf) : \A j \in (k + 1)..Len(rf) : rf[j].label # rf[k].label}}

\* page_schedule from the catalog to the task form's defaults (lines 456-576) and the
\* "Select task to edit" box (lines 779-783), the other filters left at all statuses
\* and the full date range.
ScheduleRun(st, ss, types, labels) ==
    LET rows      == fetch_resources(st.resources, TRUE)
        rd        == ResourceFrame(rows)
        tasks_all == fetch_tasks(st.resources, st.tasks)
        rf        == SelectSeq(rd, LAMBDA r : r.type \in types /\ r.label \in labels)
        options   == ResOptions(rf)
        mode      == ss.task_form_mode
        found     == {i \in 1..Len(tasks_all) : tasks_all[i].id = ss.edit_task_id}
        bounds    == ScheduleDateBounds(tasks_all, Today)
        listing   == {tasks_all[i].id : i \in {k \in 1..Len(tasks_all) :
                         ScheduleMask(MergedRow(tasks_all[k], rd), types, labels,
                                      Range(STATUS_OPTIONS), bounds[1], bounds[2])}}
    IN  IF rows = << >> \/ rf = << >>
        THEN [session |-> ss, run |-> Run("Schedule", mode, {}, {}, {}, "none")]
        ELSE IF mode = "edit" /\ ss.edit_task_id # None
        THEN IF found # {}
             THEN LET task_row == tasks_all[MinOf(found)]
                      cat      == {k \in 1..Len(rd) : rd[k].id = task_row.resource_id}
                  IN  IF cat = {}
                      THEN [session |-> ss,
                            run |-> Run("Schedule", mode, {}, {}, {task_row}, "IndexError")]
                      ELSE IF rd[MinOf(cat)].label \notin {o.label : o \in options}
                      THEN [session |-> ss,
                            run |-> Run("Schedule", mode, {}, {}, {task_row}, "ValueError")]
                      ELSE [session |-> ss,
                            run |-> Run("Schedule", mode, options, listing, {task_row}, "none")]
             ELSE [session |-> reset_task_form(ss),
                   run |-> Run("Schedule", mode, options, listing, {}, "none")]
        ELSE [session |-> ss, run |-> Run("Schedule", mode, options, listing, {}, "none")]

\* page_resources down to the form's defaults (lines 1049-1085) and the "Select resource
\* to edit" box (lines 1150-1153).
ResourcesRun(st, ss) ==
    LET res_all == fetch_resources(st.resources, FALSE)
        mode    == ss.res_form_mode
        found   == {i \in 1..Len(res_all) : res_all[i].id = ss.edit_res_id}
        listing == {res_all[i].id : i \in 1..Len(res_all)}
    IN  IF mode = "edit" /\ ss.edit_res_id # None
        THEN IF found # {}
             THEN [session |-> ss,
                   run |-> Run("Resources", mode, {}, listing, {res_all[MinOf(found)]}, "none")]
             ELSE [session |-> reset_resource_form(ss),
                   run |-> Run("Resources", mode, {}, listing, {}, "none")]
        ELSE [session |-> ss, run |-> Run("Resources", mode, {}, listing, {}, "none")]

\* The engine's variables, which the application runs do not use.
engine_vars ==
    <<res_df, tasks_df, selected_types, selected_res, status_filter, start_filter,
      end_filter, calendar_df, util_df, ordered_labels, zoom_choice, date_range, kpi, raised>>

\* conn.commit()
Commit(st) ==
    /\ resources' = st.resources
    /\ tasks' = st.tasks
    /\ seq' = st.seq

\* The fresh database file: both tables empty, no session started.
InitApp ==
    /\ resources = {}
    /\ tasks = {}
    /\ Idle

\* A script run of session s from main() to the drawn page: ensure_session_state,
\* init_db (the tables exist: nothing to create), seed_demo_data, then the page.  A new
\* run replaces whatever run the session had.
MainRun(s, page, types, labels) ==
    LET st  == seed_demo_data(CurrentStore)
        ss  == ensure_session_state(session_state[s])
        out == CASE page = "Schedule"  -> ScheduleRun(st, ss, types, labels)
                 [] page = "Resources" -> ResourcesRun(st, ss)
                 [] OTHER -> [session |-> ss, run |-> NoRun]
    IN  /\ st.seq.resources <= MaxId
        /\ st.seq.tasks <= MaxId
        /\ pc' = "main"
        /\ Commit(st)
        /\ session_state' = [session_state EXCEPT ![s] = out.session]
        /\ run' = [run EXCEPT ![s] = out.run]
        /\ form_input' = NoInput
        /\ notice' = "none"
        /\ UNCHANGED engine_vars

\* The Schedule page with any resource types and any resources selected.
RunSchedule(s) ==
    LET rd == ResourceFrame(fetch_resources(seed_demo_data(CurrentStore).resources, TRUE))
    IN  \E types \in SUBSET safe_unique(rd, "type"), labels \in SUBSET safe_unique(rd, "label") :
            /\ Desk[s] = "Schedule"
            /\ MainRun(s, "Schedule", types, labels)

RunResources(s) == Desk[s] = "Resources" /\ MainRun(s, "Resources", {}, {})

\* The Dashboard and "All tasks" pages write nothing after main().
RunDashboard(s) == Desk[s] # "Dashboard" /\ MainRun(s, "Dashboard", {}, {})

\* The task form was drawn by the session's run.
TaskFormDrawn(s) ==
    /\ run[s].page = "Schedule"
    /\ run[s].raised = "none"
    /\ run[s].res_options # {}

\* What a handler leaves behind: the press it served; the run is over (a rerun follows).
Pressed(s, op, button, title) ==
    /\ pc' = op
    /\ form_input' = title
    /\ run' = [run EXCEPT ![s] = NoRun]
    /\ UNCHANGED engine_vars

UnguardedCreateTask(s, o, title) ==
    /\ seq.tasks < MaxId
    /\ Commit(insert_task(CurrentStore, o.id, title, Today, Today, STATUS_OPTIONS[1]))
    /\ notice' = "Task created."
    /\ session_state' = [session_state EXCEPT ![s] = reset_task_form(@)]

\* "Create task" (lines 592-606) with resource option o and the typed title.
CreateTaskHandler(s, o, title) ==
    IF strip(title) # << >>
    THEN /\ seq.tasks < MaxId
         /\ Commit(insert_task(CurrentStore, o.id, strip(title), Today, Today,
                               STATUS_OPTIONS[1]))
         /\ notice' = "Task created."
         /\ session_state' = [session_state EXCEPT ![s] = reset_task_form(@)]
    ELSE /\ notice' = "Task title is required."
         /\ UNCHANGED <<resources, tasks, seq, session_state>>

CreateTask(s) ==
    /\ TaskFormDrawn(s)
    /\ run[s].mode = "create"
    /\ \E o \in run[s].res_options, title \in TitleInputs :
          /\ CreateTaskHandler(s, o, title)
          /\ Pressed(s, "create_task", "Create task", title)

\* "Save changes" (lines 608-623); dates and status stay at the form's defaults.
SaveTask(s) ==
    /\ TaskFormDrawn(s)
    /\ run[s].mode # "create"
    /\ \E o \in run[s].res_options,
          title \in TitleInputs \cup {r.title : r \in run[s].edit_row},
          d \in IF run[s].edit_row = {}
                THEN {[start_date |-> Today, end_date |-> Today, status |-> STATUS_OPTIONS[1]]}
                ELSE {[start_date |-> r.start_date, end_date |-> r.end_date,
                       status |-> r.status] : r \in run[s].edit_row} :
          /\ IF strip(title) # << >>
             THEN /\ Commit(update_task(CurrentStore, session_state[s].edit_task_id, o.id,
                                        strip(title), d.start_date, d.end_date, d.status))
                  /\ notice' = "Task updated."
                  /\ session_state' = [session_state EXCEPT ![s] = reset_task_form(@)]
             ELSE /\ notice' = "Task title is required."
                  /\ UNCHANGED <<resources, tasks, seq, session_state>>
          /\ Pressed(s, "save_task", "Save changes", title)

\* "Cancel edit" (lines 626-629).
CancelTask(s) ==
    /\ TaskFormDrawn(s)
    /\ run[s].mode = "edit"
    /\ session_state' = [session_state EXCEPT ![s] = reset_task_form(@)]
    /\ notice' = "none"
    /\ Pressed(s, "cancel_task", "Cancel edit", << >>)
    /\ UNCHANGED <<resources, tasks, seq>>

\* "Delete task" (lines 632-637).
DeleteTask(s) ==
    /\ TaskFormDrawn(s)
    /\ run[s].mode = "edit"
    /\ session_state[s].edit_task_id # None
    /\ Commit(delete_task(CurrentStore, session_state[s].edit_task_id))
    /\ session_state' = [session_state EXCEPT ![s] = reset_task_form(@)]
    /\ notice' = "Task deleted."
    /\ Pressed(s, "delete_task", "Delete task", << >>)

\* "Select task to edit" (lines 779-787).
SelectTask(s) ==
    /\ TaskFormDrawn(s)
    /\ \E edit_id \in run[s].listing :
          session_state' = [session_state EXCEPT ![s].task_form_mode = "edit",
                                                 ![s].edit_task_id = edit_id]
    /\ notice' = "none"
    /\ Pressed(s, "select_task", "Select task to edit", << >>)
    /\ UNCHANGED <<resources, tasks, seq>>

ResourceFormDrawn(s) ==
    /\ run[s].page = "Resources"
    /\ run[s].raised = "none"

\* row["color"] or "": the text the Color field starts with.
color_text(c) == IF c = NoColor THEN "" ELSE c

\* "Create resource" (lines 1111-1118), the color left empty.
CreateResource(s) ==
    /\ ResourceFormDrawn(s)
    /\ run[s].mode = "create"
    /\ \E name \in NameInputs, rtype \in {"Vessel", "Person"}, color \in {""} :
          IF strip_name(name) # ""
          THEN /\ seq.resources < MaxId
               /\ Commit(insert_resource(CurrentStore, strip_name(name), rtype,
                                         color_or_none(color)))
               /\ notice' = "Resource created."
               /\ session_state' = [session_state EXCEPT ![s] = reset_resource_form(@)]
          ELSE /\ notice' = "Name is required."
               /\ UNCHANGED <<resources, tasks, seq, session_state>>
    /\ Pressed(s, "create_resource", "Create resource", << >>)

\* "Save resource" (lines 1120-1133); name and type stay at the form's defaults unless
\* the name is blanked.
SaveResource(s) ==
    /\ ResourceFormDrawn(s)
    /\ run[s].mode # "create"
    /\ \E d \in IF run[s].edit_row = {}
                THEN {[name |-> "", type |-> "Person", color |-> NoColor]}
                ELSE {[name |-> r.name, type |-> r.type, color |-> r.color]
                         : r \in run[s].edit_row} :
          \E name \in {d.name, "  "}, color \in {color_text(d.color)} \cup ColorInputs,
             active \in BOOLEAN :
             IF strip_name(name) # ""
             THEN /\ Commit(update_resource(CurrentStore, session_state[s].edit_res_id,
                                            strip_name(name), d.type, color_or_none(color),
                                            active))
                  /\ notice' = "Resource updated."
                  /\ session_state' = [session_state EXCEPT ![s] = reset_resource_form(@)]
             ELSE /\ notice' = "Name is required."
                  /\ UNCHANGED <<resources, tasks, seq, session_state>>
    /\ Pressed(s, "save_resource", "Save resource", << >>)

\* "Cancel edit" (lines 1136-1139).
CancelResource(s) ==
    /\ ResourceFormDrawn(s)
    /\ run[s].mode = "edit"
    /\ session_state' = [session_state EXCEPT ![s] = reset_resource_form(@)]
    /\ notice' = "none"
    /\ Pressed(s, "cancel_resource", "Cancel edit", << >>)
    /\ UNCHANGED <<resources, tasks, seq>>

\* "Delete resource (and its tasks)" (lines 1142-1147).
DeleteResource(s) ==
    /\ ResourceFormDrawn(s)
    /\ run[s].mode = "edit"
    /\ session_state[s].edit_res_id # None
    /\ Commit(delete_resource(CurrentStore, session_state[s].edit_res_id))
    /\ session_state' = [session_state EXCEPT ![s] = reset_resource_form(@)]
    /\ notice' = "Resource and its tasks deleted."
    /\ Pressed(s, "delete_resource", "Delete resource", << >>)

\* "Select resource to edit" (lines 1150-1158).
SelectResource(s) ==
    /\ ResourceFormDrawn(s)
    /\ \E res_id \in run[s].listing :
          session_state' = [session_state EXCEPT ![s].res_form_mode = "edit",
                                                 ![s].edit_res_id = res_id]
    /\ notice' = "none"
    /\ Pressed(s, "select_resource", "Select resource to edit", << >>)
    /\ UNCHANGED <<resources, tasks, seq>>

NextApp ==
    \/ \E s \in Sessions : RunSchedule(s)
    \/ \E s \in Sessions : RunResources(s)
    \/ \E s \in Sessions : RunDashboard(s)
    \/ \E s \in Sessions : CreateTask(s)
    \/ \E s \in Sessions : SaveTask(s)
    \/ \E s \in Sessions : CancelTask(s)
    \/ \E s \in Sessions : DeleteTask(s)
    \/ \E s \in Sessions : SelectTask(s)
    \/ \E s \in Sessions : CreateResource(s)
    \/ \E s \in Sessions : SaveResource(s)
    \/ \E s \in Sessions : CancelResource(s)
    \/ \E s \in Sessions : DeleteResource(s)
    \/ \E s \in Sessions : SelectResource(s)

SpecApp == InitApp /\ [][NextApp]_vars

\* ------------------------------------------------------------------ claims

TypeOrder(type) == CHOOSE i \in 1..Len(ResourceTypes) : ResourceTypes[i] = type

Recognized(frame) == \A i \in 1..Len(frame) : frame[i].type \in Range(ResourceTypes)

\* p lists the rows of frame grouped Vessel, Project, Person, each group in frame order.
GroupedStably(frame, p) ==
    /\ \A i, j \in 1..Len(frame) : i # j => p[i] # p[j]
    /\ \A i, j \in 1..Len(frame) : i < j =>
          \/ TypeOrder(frame[p[i]].type) < TypeOrder(frame[p[j]].type)
          \/ frame[p[i]].type = frame[p[j]].type /\ p[i] < p[j]

\* The records of calendar_df that row (a task, by its title) contributed on day d.
RecordsOn(cal, row, d) ==
    {k \in 1..Len(cal) : cal[k].title = row.title /\ cal[k].date = d}

RecordsOf(cal, row) == {k \in 1..Len(cal) : cal[k].title = row.title}

\* The clamp bounds, an absent one replaced by the task's own bound.
EffectiveStart(row) == IF start_filter = << >> THEN row.Start ELSE Max2(row.Start, start_filter[1])

EffectiveEnd(row) == IF end_filter = << >> THEN row.Finish ELSE Min2(row.Finish, end_filter[1])

\* C2: the expander emits, for every task, exactly one record for each day between
\* max(start, clamp_start) and min(end, clamp_end) and none for any other day; a task
\* with start <= end inside the clamp window yields (end - start) + 1 records.
C2_ExpandDays ==
    pc = "expand_tasks_to_calendar" =>
        /\ \A k \in 1..Len(calendar_df) :
              \E i \in 1..Len(tasks_df) : calendar_df[k].title = tasks_df[i].title
        /\ \A i \in 1..Len(tasks_df) :
              /\ \A d \in 0..(MaxDay + 1) :
                    Cardinality(RecordsOn(calendar_df, tasks_df[i], d)) =
                        IF EffectiveStart(tasks_df[i]) <= d /\ d <= EffectiveEnd(tasks_df[i])
                        THEN 1 ELSE 0
              /\ ( /\ tasks_df[i].Start <= tasks_df[i].Finish
                   /\ start_filter # << >> => start_filter[1] <= tasks_df[i].Start
                   /\ end_filter # << >> => tasks_df[i].Finish <= end_filter[1] )
                 => Cardinality(RecordsOf(calendar_df, tasks_df[i])) =
                        (tasks_df[i].Finish - tasks_df[i].Start) + 1

\* A two-day task cut to its last day by the window start, next to an unclamped task.
C2_Witness ==
    /\ pc = "expand_tasks_to_calendar"
    /\ start_filter = <<2>>
    /\ end_filter = << >>
    /\ \E i \in 1..Len(tasks_df) :
          /\ tasks_df[i].Start = 1
          /\ tasks_df[i].Finish = 2
          /\ Cardinality(RecordsOf(calendar_df, tasks_df[i])) = 1
    /\ \E i \in 1..Len(tasks_df) :
          /\ tasks_df[i].Start = 2
          /\ tasks_df[i].Finish = 3
          /\ Cardinality(RecordsOf(calendar_df, tasks_df[i])) = 2

Malformed(row) == row.Start > row.Finish

OutsideWindow(row) ==
    \/ start_filter # << >> /\ row.Finish < start_filter[1]
    \/ end_filter # << >> /\ row.Start > end_filter[1]

\* C3: a task with start > end, and a task wholly outside the clamp window, adds no
\* occupancy record and raises nothing, for any window or none; every other task of the
\* same input is still expanded.
C3_SkippedNotErred ==
    pc = "expand_tasks_to_calendar" =>
        /\ raised = "none"
        /\ \A i \in 1..Len(tasks_df) :
              IF Malformed(tasks_df[i]) \/ OutsideWindow(tasks_df[i])
              THEN RecordsOf(calendar_df, tasks_df[i]) = {}
              ELSE Cardinality(RecordsOf(calendar_df, tasks_df[i])) =
                      Max2(0, (EffectiveEnd(tasks_df[i]) - EffectiveStart(tasks_df[i])) + 1)

C3_Witness ==
    /\ pc = "expand_tasks_to_calendar"
    /\ raised = "none"
    /\ start_filter = << >>
    /\ end_filter = <<2>>
    /\ \E i, k \in 1..Len(tasks_df) :
          /\ Malformed(tasks_df[i]) /\ ~OutsideWindow(tasks_df[i])
          /\ ~Malformed(tasks_df[k]) /\ ~OutsideWindow(tasks_df[k])
          /\ RecordsOf(calendar_df, tasks_df[i]) = {}
          /\ RecordsOf(calendar_df, tasks_df[k]) # {}

\* Resource r has a task covering day d.
Occupied(frame, r, d) ==
    \E i \in 1..Len(frame) :
        frame[i].resource_id = r /\ frame[i].Start <= d /\ d <= frame[i].Finish

UtilRowsOf(util, r) == {k \in 1..Len(util) : util[k].resource_id = r}

\* C4: with the occupancy expanded for window W and the utilization computed for the
\* same W, every row has 0 <= utilization <= 100 and busy_days <= available_days; a
\* resource occupied on every day of W is at exactly 100; a resource with no occupancy
\* in W has no row.  (utilization is held in tenths of a percent: 100.0 is 1000.)
C4_UtilizationBound ==
    pc = "load_snapshot" =>
        LET ws == start_filter[1]
            we == end_filter[1]
        IN  /\ \A k \in 1..Len(util_df) :
                  /\ 0 <= util_df[k].utilization /\ util_df[k].utilization <= 1000
                  /\ util_df[k].busy_days <= util_df[k].available_days
            /\ \A r \in {t.resource_id : t \in tasks} :
                  /\ (ws <= we /\ \A d \in ws..we : Occupied(tasks_df, r, d)) =>
                        /\ UtilRowsOf(util_df, r) # {}
                        /\ \A k \in UtilRowsOf(util_df, r) : util_df[k].utilization = 1000
                  /\ (\A d \in ws..we : ~Occupied(tasks_df, r, d)) =>
                        UtilRowsOf(util_df, r) = {}

\* One resource busy on both days of the window, the other on one of them.
C4_Witness ==
    /\ pc = "load_snapshot"
    /\ start_filter = <<2>>
    /\ end_filter = <<3>>
    /\ Len(util_df) = 2
    /\ util_df[1].utilization = 1000
    /\ util_df[2].utilization = 500
    /\ \E i \in 1..Len(tasks_df) : tasks_df[i].Start < 2

\* C5: for any occupancy input, a window with window_end < window_start gives an empty
\* utilization result and no exception.
C5_DivisionSafety ==
    (pc = "compute_utilization" /\ end_filter[1] < start_filter[1]) =>
        /\ util_df = << >>
        /\ raised = "none"

C5_Witness ==
    /\ pc = "compute_utilization"
    /\ end_filter[1] < start_filter[1]
    /\ calendar_df # << >>
    /\ util_df = << >>
    /\ raised = "none"

IdsOf(frame) == {frame[i].id : i \in 1..Len(frame)}

FilterRan == notice \in {"none", "no_task_match"}

InWindow(t) == t.start_date <= end_filter[1] /\ t.end_date >= start_filter[1]

\* C1: the overlap filter keeps a task exactly when its resource's type is among the
\* selected types, its resource's label among the selected labels, its status among the
\* selected statuses, and task.start <= window_end and task.end >= window_start; an
\* empty selection leaves nothing.  The Schedule page reads type and label from its
\* catalog; the Dashboard page has no label selection and reads the type from the join.
C1_OverlapFilter ==
    /\ (pc = "page_schedule" /\ FilterRan) =>
          IdsOf(tasks_df) =
              {t.id : t \in {u \in tasks :
                  /\ \E k \in 1..Len(res_df) :
                        /\ res_df[k].id = u.resource_id
                        /\ res_df[k].type \in selected_types
                        /\ res_df[k].label \in selected_res
                  /\ u.status \in status_filter
                  /\ InWindow(u)}}
    /\ (pc = "page_dashboard" /\ FilterRan) =>
          IdsOf(tasks_df) =
              {t.id : t \in {u \in tasks :
                  /\ \E r \in resources : r.id = u.resource_id /\ r.type \in selected_types
                  /\ u.status \in status_filter
                  /\ InWindow(u)}}
    /\ (pc = "page_schedule" /\ (selected_types = {} \/ selected_res = {} \/ status_filter = {}))
          => tasks_df = << >>
    /\ (pc = "page_dashboard" /\ (selected_types = {} \/ status_filter = {}))
          => tasks_df = << >>

\* A task ending on the window's first day is kept; the selections are all partial.
C1_Witness ==
    /\ pc = "page_schedule"
    /\ notice = "none"
    /\ start_filter = <<2>>
    /\ selected_types = {"Person"}
    /\ selected_res = {"Person - Zed"}
    /\ status_filter = {"Done"}
    /\ Cardinality(tasks) = 2
    /\ Len(tasks_df) = 1
    /\ tasks_df[1].Start = 1
    /\ tasks_df[1].Finish = 2

\* C6: the dashboard pipeline (filter, expander, utilization, KPI cards) never raises,
\* whatever tasks are stored and whatever is selected.
C6_DashboardNeverRaises ==
    pc = "page_dashboard" => raised = "none"

Dangling(t) == \A r \in resources : r.id # t.resource_id

ResourceIds == {r.id : r \in resources}

CurrentView ==
    View(res_df, tasks_df, start_filter, end_filter, calendar_df, util_df,
         ordered_labels, kpi, notice, raised)

\* C7: a task whose resource_id names no stored resource is in no page's filtered
\* tasks, occupancy records or utilization rows, and it changes nothing: the page ends
\* as it does on the store without that task, and raises nothing when no other task is
\* stored.
C7_DanglingDropped ==
    /\ pc \in {"page_schedule", "page_dashboard"} =>
          /\ \A i \in 1..Len(tasks_df) : tasks_df[i].resource_id \in ResourceIds
          /\ \A i \in 1..Len(calendar_df) : calendar_df[i].resource_id \in ResourceIds
          /\ \A i \in 1..Len(util_df) : util_df[i].resource_id \in ResourceIds
          /\ (\A t \in tasks : Dangling(t)) => (raised = "none" /\ notice # "none")
    /\ pc = "page_schedule" =>
          CurrentView =
              page_schedule(resources, {t \in tasks : ~Dangling(t)}, selected_types,
                            selected_res, status_filter, zoom_choice, date_range,
                            IF start_filter = << >> THEN MinOf(Days) ELSE start_filter[1])
    /\ pc = "page_dashboard" =>
          CurrentView =
              page_dashboard(resources, {t \in tasks : ~Dangling(t)}, date_range,
                             selected_types, status_filter)

\* A task of the deleted resource 2 beside a task of resource 1, on both pages' path.
C7_Witness ==
    /\ pc = "page_dashboard"
    /\ \E t \in tasks : Dangling(t)
    /\ Len(tasks_df) = 1
    /\ calendar_df # << >>
    /\ raised = "none"

ActiveIds == {r.id : r \in {x \in resources : x.active = 1}}

\* C8: a task of an inactive resource is in no page's filtered tasks, occupancy records
\* or utilization rows, on the Schedule page and on the Dashboard page alike.
C8_InactiveDropped ==
    pc \in {"page_schedule", "page_dashboard"} =>
        /\ \A i \in 1..Len(tasks_df) : tasks_df[i].resource_id \in ActiveIds
        /\ \A i \in 1..Len(calendar_df) : calendar_df[i].resource_id \in ActiveIds
        /\ \A i \in 1..Len(util_df) : util_df[i].resource_id \in ActiveIds

C10_UnknownTypeKept ==
    pc = "ordered_resource_labels" =>
        \A i \in 1..Len(res_df) :
            res_df[i].type \notin Range(ResourceTypes) =>
                \/ raised # "none"
                \/ \E k \in 1..Len(ordered_labels) :
                      /\ ordered_labels[k] = res_df[i].label
                      /\ \A j \in 1..Len(res_df) :
                            res_df[j].type \in Range(ResourceTypes) =>
                                \E m \in 1..Len(ordered_labels) :
                                    m < k /\ ordered_labels[m] = res_df[j].label

\* The Aurora scenario: one task 2025-01-04..2025-01-15 (days 4..15 of a 31-day month).
AuroraRow ==
    WithStartFinish(
        [id |-> 1, resource_id |-> 1, title |-> "Cable lay", start_date |-> 4,
         end_date |-> 15, status |-> "In Progress", resource_name |-> "Aurora",
         resource_type |-> "Vessel"],
        [label |-> NaN, type |-> NaN])

AuroraUtilization ==
    compute_utilization(expand_tasks_to_calendar(<<AuroraRow>>, <<1>>, <<31>>), 1, 31)

DatesOf(cal, r) == {cal[i].date : i \in {j \in 1..Len(cal) : cal[j].resource_id = r}}

\* C11: for a non-empty occupancy input and a window with window_end >= window_start,
\* compute_utilization returns exactly one row per resource of the input; its busy_days
\* is the number of distinct days on which the resource has a record (a day covered by
\* several tasks counts once), its available_days is (window_end - window_start) + 1,
\* and its utilization is busy_days / available_days * 100 to the nearest tenth.  The
\* task 4..15 in the window 1..31 gives busy_days 12, available_days 31 and 38.7.
C11_UtilizationRow ==
    (pc = "compute_utilization" /\ calendar_df # << >> /\ start_filter[1] <= end_filter[1]) =>
        LET avail == (end_filter[1] - start_filter[1]) + 1
        IN  /\ raised = "none"
            /\ {util_df[k].resource_id : k \in 1..Len(util_df)} =
                  {calendar_df[i].resource_id : i \in 1..Len(calendar_df)}
            /\ \A k, m \in 1..Len(util_df) :
                  util_df[k].resource_id = util_df[m].resource_id => k = m
            /\ \A k \in 1..Len(util_df) :
                  /\ util_df[k].busy_days =
                        Cardinality(DatesOf(calendar_df, util_df[k].resource_id))
                  /\ util_df[k].available_days = avail
                  /\ 2 * (util_df[k].utilization * avail - util_df[k].busy_days * 1000) <= avail
                  /\ 2 * (util_df[k].busy_days * 1000 - util_df[k].utilization * avail) <= avail
            /\ Len(AuroraUtilization) = 1
            /\ AuroraUtilization[1].busy_days = 12
            /\ AuroraUtilization[1].available_days = 31
            /\ AuroraUtilization[1].utilization = 387

\* Two tasks of one resource on the same two days of a three-day window: 66.7.
C11_Witness ==
    /\ pc = "compute_utilization"
    /\ start_filter = <<1>>
    /\ end_filter = <<3>>
    /\ Len(calendar_df) = 4
    /\ Len(util_df) = 1
    /\ util_df[1].busy_days = 2
    /\ util_df[1].available_days = 3
    /\ util_df[1].utilization = 667

\* The (resource, task, day) records of an occupancy frame.
RecordSet(cal) == {<<cal[i].resource_id, cal[i].title, cal[i].date>> : i \in 1..Len(cal)}

\* The task with its interval cut to the window; an absent bound cuts nothing.
ClampedRow(row, sf, ef) ==
    [row EXCEPT !.Start = ClampedStart(row, sf), !.Finish = ClampedEnd(row, ef)]

\* C12: the records of an expansion with window W, each read as a one-day task and
\* expanded again with W, give the same (resource, task, day) records as the first
\* expansion; so does expanding with W the tasks already cut to W.
C12_ClampIdempotence ==
    [][pc' = "re_expand" =>
          /\ RecordSet(calendar_df') = RecordSet(calendar_df)
          /\ Len(calendar_df') = Len(calendar_df)
          /\ RecordSet(expand_tasks_to_calendar(
                 [i \in 1..Len(tasks_df) |-> ClampedRow(tasks_df[i], start_filter, end_filter)],
                 start_filter, end_filter)) = RecordSet(calendar_df)]_vars

\* A three-day task cut to the window 2..3 and expanded again from its two records.
C12_Witness ==
    /\ pc = "re_expand"
    /\ start_filter = <<2>>
    /\ end_filter = <<3>>
    /\ \E t \in tasks : t.start_date = 1 /\ t.end_date = 3
    /\ Cardinality(tasks) = 1
    /\ Len(tasks_df) = 2
    /\ RecordSet(calendar_df) = {<<tasks_df[i].resource_id, tasks_df[i].title, 1 + i>> : i \in 1..2}

\* The task 2025-01-10..2025-01-20 of the overlap scenario (days 10..20).
OverlapRow == [AuroraRow EXCEPT !.start_date = 10, !.end_date = 20, !.Start = 10, !.Finish = 20]

\* The date condition of the two pages' masks, the other conditions satisfied.
PassesDateFilter(row, ws, we) ==
    /\ ScheduleMask(row, {row.ResourceType}, {row.ResourceLabel}, {row.status}, ws, we)
    /\ DashboardMask(row, {row.resource_type}, {row.status}, ws, we)

FailsDateFilter(row, ws, we) ==
    /\ ~ScheduleMask(row, {row.ResourceType}, {row.ResourceLabel}, {row.status}, ws, we)
    /\ ~DashboardMask(row, {row.resource_type}, {row.status}, ws, we)

\* C13: for a task with start <= end and a window W with window_start <= window_end,
\* the task passes the overlap filter's date condition for W exactly when its expansion
\* with clamp window W has a record, and then its records are the days of the
\* intersection of its interval with W, one each.  The task 10..20 against the window
\* 15..25 passes and expands to the 6 days 15..20.
C13_FilterExpanderAgreement ==
    ( /\ pc = "expand_tasks_to_calendar"
      /\ start_filter # << >> /\ end_filter # << >>
      /\ start_filter[1] <= end_filter[1] ) =>
        LET ws == start_filter[1]
            we == end_filter[1]
        IN  /\ \A i \in 1..Len(tasks_df) :
                  tasks_df[i].Start <= tasks_df[i].Finish =>
                      /\ IF RecordsOf(calendar_df, tasks_df[i]) # {}
                         THEN PassesDateFilter(tasks_df[i], ws, we)
                         ELSE FailsDateFilter(tasks_df[i], ws, we)
                      /\ \A d \in 0..(MaxDay + 1) :
                            Cardinality(RecordsOn(calendar_df, tasks_df[i], d)) =
                                IF /\ tasks_df[i].Start <= d /\ d <= tasks_df[i].Finish
                                   /\ ws <= d /\ d <= we
                                THEN 1 ELSE 0
            /\ PassesDateFilter(OverlapRow, 15, 25)
            /\ LET cal == expand_tasks_to_calendar(<<OverlapRow>>, <<15>>, <<25>>)
               IN  /\ Len(cal) = 6
                   /\ {cal[k].date : k \in 1..Len(cal)} = 15..20

\* A task ending on the window's first day is in view and has that one day; a task
\* ending the day before is out of view and has none.
C13_Witness ==
    /\ pc = "expand_tasks_to_calendar"
    /\ start_filter = <<2>>
    /\ end_filter = <<3>>
    /\ \E i, k \in 1..Len(tasks_df) :
          /\ tasks_df[i].Start = 1 /\ tasks_df[i].Finish = 2
          /\ PassesDateFilter(tasks_df[i], 2, 3)
          /\ {calendar_df[m].date : m \in RecordsOf(calendar_df, tasks_df[i])} = {2}
          /\ tasks_df[k].Start = 1 /\ tasks_df[k].Finish = 1
          /\ FailsDateFilter(tasks_df[k], 2, 3)
          /\ RecordsOf(calendar_df, tasks_df[k]) = {}

\* C14: expand_tasks_to_calendar on an empty task collection, compute_utilization on an
\* empty occupancy input (for any window) and ordered_resource_labels on an empty
\* resource catalog each return an empty result and raise no error.
C14_EmptyInputs ==
    /\ (pc = "expand_tasks_to_calendar" /\ tasks_df = << >>) =>
          (calendar_df = << >> /\ raised = "none")
    /\ (pc = "compute_utilization" /\ calendar_df = << >>) =>
          (util_df = << >> /\ raised = "none")
    /\ (pc = "ordered_resource_labels" /\ res_df = << >>) =>
          (ordered_labels = << >> /\ raised = "none")

\* The session whose handler ran in this step.
Acted(s) == run[s] # NoRun /\ run'[s] = NoRun

\* C15: when delete_resource(r) has completed, the store holds neither resource r nor a
\* task whose resource_id is r, and every other resource and every task of another
\* resource is as it was.
C15_CascadeDelete ==
    [][pc' = "delete_resource" =>
          \E s \in Sessions :
              /\ Acted(s)
              /\ LET r == session_state[s].edit_res_id
                 IN  /\ \A x \in resources' : x.id # r
                     /\ \A t \in tasks' : t.resource_id # r
                     /\ resources' = {x \in resources : x.id # r}
                     /\ tasks' = {t \in tasks : t.resource_id # r}
                     /\ seq' = seq]_vars

\* The second resource went with its task; the demo resource and its task stayed.
C15_Witness ==
    /\ pc = "delete_resource"
    /\ seq = [resources |-> 2, tasks |-> 2]
    /\ {r.id : r \in resources} = {1}
    /\ {t.id : t \in tasks} = {1}
    /\ \A t \in tasks : t.resource_id = 1

\* A title that is empty or whitespace only.
Blank(title) == \A i \in DOMAIN title : title[i] = " "

C17_SeedIdempotent ==
    LET once  == seed_demo_data(CurrentStore)
        twice == seed_demo_data(once)
    IN  /\ twice = once
        /\ \A r \in once.resources :
              r.id \notin {x.id : x \in resources} =>
                  \A x \in resources : ~(x.name = r.name /\ x.type = r.type)
        /\ \A t \in once.tasks :
              t.id \notin {u.id : u \in tasks} =>
                  \A u \in tasks :
                      ~( /\ u.resource_id = t.resource_id /\ u.title = t.title
                         /\ u.start_date = t.start_date /\ u.end_date = t.end_date )

\* The demo task was deleted and a run of main() has seeded it again, once.
C17_Witness ==
    /\ pc = "main"
    /\ seq.tasks = 2
    /\ {t.id : t \in tasks} = {2}
    /\ \A t \in tasks : t.title = demo_tasks[1].title
    /\ seed_demo_data(CurrentStore) = CurrentStore

\* C18: in every store state the sessions' operations reach, in any interleaving, every
\* stored task's resource_id identifies an existing resource row.
C18_ReferentialIntegrity ==
    \A t \in tasks : \E r \in resources : r.id = t.resource_id

\* C19: a run of main() leaves the active flag and the color of every resource row that
\* already exists as they were.
C19_StartupKeepsEdits ==
    [][pc' = "main" =>
          \A r \in resources :
              \E x \in resources' : x.id = r.id /\ x.active = r.active /\ x.color = r.color]_vars

\* C20: on the Schedule page in edit mode with a matching resource, the edited task's
\* resource has a label in the active catalog that is one of the form's resource
\* options: computing the form's default resource never fails.
C20_EditDefaultSelectable ==
    \A s \in Sessions :
        (run[s].page = "Schedule" /\ run[s].mode = "edit" /\ run[s].edit_row # {}) =>
            /\ run[s].raised = "none"
            /\ run[s].res_options # {}

\* The four form keys of one session agree: each mode is "create" or "edit", and it is
\* "edit" exactly when the matching edited id is set.
FormKeysAgree(ss) ==
    /\ ss.task_form_mode \in {"create", "edit"}
    /\ (ss.task_form_mode = "edit") <=> (ss.edit_task_id # None)
    /\ ss.res_form_mode \in {"create", "edit"}
    /\ (ss.res_form_mode = "edit") <=> (ss.edit_res_id # None)

\* C21: in every session state reached after ensure_session_state by any sequence of
\* select-to-edit, create, save, cancel and delete actions, task_form_mode is "create"
\* or "edit" and is "edit" exactly when edit_task_id is not None, and likewise
\* res_form_mode and edit_res_id. A session that has not run the script yet holds no
\* keys at all.
C21_FormModeInvariant ==
    \A s \in Sessions :
       session_state[s] = NewSession \/ FormKeysAgree(session_state[s])

\* One session is editing a task while the other has just cancelled its resource edit.
C21_Witness ==
    /\ pc = "cancel_resource"
    /\ session_state["op1"].task_form_mode = "edit"
    /\ session_state["op1"].edit_task_id # None
    /\ session_state["op2"].res_form_mode = "create"
    /\ session_state["op2"].edit_res_id = None

====
